---- MODULE Spec2Model ----
(***************************************************************************)
(* Symbolic forward-mode differentiation engine of forwardAutoDiff/main.rs *)
(* (expression tree, simplifier, differentiator, evaluator).               *)
(*                                                                         *)
(* An expression tree is a record [op, name, value, args]; `name` is the   *)
(* payload of Operation::Var, `value` the payload of Operation::Const.     *)
(*                                                                         *)
(* f64 values are modelled by the fragment of IEEE-754 double arithmetic   *)
(* whose results are known exactly:                                        *)
(*   k = "fin"  the dyadic rational m / 2^e (m odd or e = 0); + and * are  *)
(*              exact in f64 while the mantissa stays below 2^53, and the  *)
(*              model keeps it below 2^MantBits; m = 0 is 0.0, or -0.0     *)
(*              when fn = "-";                                             *)
(*   k = "inf"  +infinity (m = 1) or -infinity (m = -1);                   *)
(*   k = "nan"  NaN;                                                       *)
(*   k = "irr"  the f64 nearest to fn(m / 2^e) for fn in sin, cos, ln, or  *)
(*              the constant std::f64::consts::E (fn = "e"); such a value  *)
(*              is kept symbolically, with its distance to 0 and 1 known;  *)
(*   k = "bad"  a result outside the fragment.  Every action is guarded so *)
(*              that no such value is ever stored or returned.             *)
(* 0.0 and -0.0 are two values (equal under f64 ==).                       *)
(***************************************************************************)
EXTENDS Integers, Naturals, Sequences, FiniteSets, TLC

\* largest binary exponent of a modelled dyadic value
MaxExp == 24
\* mantissas of modelled dyadic values stay below 2^MantBits
MantBits == 28
\* the tolerance 1e-5 of eq(), as its inverse
TolInv == 100000

RECURSIVE Pow2(_)
Pow2(n) == IF n <= 0 THEN 1 ELSE 2 * Pow2(n - 1)

MantLimit == Pow2(MantBits)

Abs(i) == IF i < 0 THEN 0 - i ELSE i

Sgn(i) == IF i < 0 THEN 0 - 1 ELSE IF i = 0 THEN 0 ELSE 1

MaxOf(i, j) == IF i < j THEN j ELSE i

RECURSIVE Norm(_, _)
Norm(m, e) ==
    IF e > 0 /\ m % 2 = 0 THEN Norm(m \div 2, e - 1)
    ELSE [m |-> m, e |-> e, k |-> "fin", fn |-> ""]

Fin(m, e) ==
    IF e > MaxExp \/ Abs(m) > MantLimit THEN [m |-> 0, e |-> 0, k |-> "bad", fn |-> ""]
    ELSE Norm(m, e)

Num(i) == [m |-> i, e |-> 0, k |-> "fin", fn |-> ""]
Zero == Num(0)
\* -0.0
NegZero == [m |-> 0, e |-> 0, k |-> "fin", fn |-> "-"]
One == Num(1)
NaN == [m |-> 0, e |-> 0, k |-> "nan", fn |-> ""]
Inf(s) == [m |-> s, e |-> 0, k |-> "inf", fn |-> ""]
Bad == [m |-> 0, e |-> 0, k |-> "bad", fn |-> ""]
Irr(fn, m, e) == [m |-> m, e |-> e, k |-> "irr", fn |-> fn]
\* std::f64::consts::E
E == Irr("e", 0, 0)

IsFin(v) == v.k = "fin"
IsZero(v) == v.k = "fin" /\ v.m = 0
IsOne(v) == v.k = "fin" /\ v.m = 1 /\ v.e = 0
\* a finite f64 (neither infinite nor NaN)
Finite(v) == v.k \in {"fin", "irr"}

\* the sign bit of a modelled value that is not NaN: -1 when set, else 1;
\* sin keeps the sign of its argument on |v| <= 3, cos is positive below
\* pi/2 and negative above, ln is positive above 1
SignOf(v) ==
    CASE v.k = "fin" -> IF v.m < 0 \/ (v.m = 0 /\ v.fn = "-") THEN 0 - 1 ELSE 1
      [] v.k = "inf" -> v.m
      [] v.k = "irr" /\ v.fn = "sin" -> IF v.m < 0 THEN 0 - 1 ELSE 1
      [] v.k = "irr" /\ v.fn = "cos" ->
           IF 16 * Abs(v.m) <= 25 * Pow2(v.e) THEN 1 ELSE 0 - 1
      [] v.k = "irr" /\ v.fn = "ln" -> IF v.m > Pow2(v.e) THEN 1 ELSE 0 - 1
      [] OTHER -> 1

\* 0.0 or -0.0, by sign
SignedZero(s) == IF s < 0 THEN NegZero ELSE Zero

\* |v - b| < 1e-5 for a dyadic v and an integer b
NearFin(v, b) ==
    LET d == Abs(v.m - b * Pow2(v.e))
    IN  d <= Pow2(14) /\ d * TolInv < Pow2(v.e)

\* a < |m / 2^e| < b for rationals a = an/ad, b = bn/bd
Between(v, an, ad, bn, bd) ==
    /\ an * Pow2(v.e) < ad * Abs(v.m)
    /\ bd * Abs(v.m) < bn * Pow2(v.e)

\* |m / 2^e| > 2^-j for a nonzero dyadic
Above2(v, j) == v.e < j \/ Abs(v.m) > Pow2(v.e - j)

\* |m / 2^e| <= 3
AtMost3(v) == Abs(v.m) <= 3 * Pow2(v.e)

\* sin and cos are modelled on 0 < |v| <= 3, away from pi/2 (where sin is
\* within 1e-5 of 1 and cos within 1e-5 of 0)
TrigDomain(v) == IsFin(v) /\ AtMost3(v) /\ ~Between(v, 25, 16, 13, 8)

\* (value - b).abs() < 1e-5
Near(v, b) ==
    CASE v.k = "fin" -> NearFin(v, b)
      [] v.k = "irr" /\ v.fn = "sin" -> b = 0 /\ NearFin(v, 0)
      [] v.k = "irr" /\ v.fn = "cos" -> b = 1 /\ ~Above2(v, 8)
      [] v.k = "irr" /\ v.fn = "ln" -> b = 0 /\ NearFin(v, 1)
      [] OTHER -> FALSE

\* a + b
FAdd(a, b) ==
    CASE a.k = "bad" \/ b.k = "bad" -> Bad
      [] a.k = "nan" \/ b.k = "nan" -> NaN
      [] a.k = "inf" /\ b.k = "inf" -> IF a.m = b.m THEN a ELSE NaN
      [] a.k = "inf" -> a
      [] b.k = "inf" -> b
      [] a.k = "irr" -> IF IsZero(b) THEN a ELSE Bad
      [] b.k = "irr" -> IF IsZero(a) THEN b ELSE Bad
      [] IsZero(a) /\ IsZero(b) ->
          IF SignOf(a) < 0 /\ SignOf(b) < 0 THEN NegZero ELSE Zero
      [] OTHER ->
          LET e == MaxOf(a.e, b.e)
              sa == Pow2(e - a.e)
              sb == Pow2(e - b.e)
          IN  IF Abs(a.m) > MantLimit \div sa \/ Abs(b.m) > MantLimit \div sb
              THEN Bad
              ELSE Fin(a.m * sa + b.m * sb, e)

\* a * b
FMul(a, b) ==
    CASE a.k = "bad" \/ b.k = "bad" -> Bad
      [] a.k = "nan" \/ b.k = "nan" -> NaN
      [] a.k = "inf" /\ b.k = "inf" -> Inf(a.m * b.m)
      [] a.k = "inf" ->
          IF b.k = "irr" THEN Bad ELSE IF b.m = 0 THEN NaN ELSE Inf(a.m * Sgn(b.m))
      [] b.k = "inf" ->
          IF a.k = "irr" THEN Bad ELSE IF a.m = 0 THEN NaN ELSE Inf(b.m * Sgn(a.m))
      [] a.k = "irr" ->
          IF IsZero(b) THEN SignedZero(SignOf(a) * SignOf(b))
          ELSE IF IsOne(b) THEN a ELSE Bad
      [] b.k = "irr" ->
          IF IsZero(a) THEN SignedZero(SignOf(a) * SignOf(b))
          ELSE IF IsOne(a) THEN b ELSE Bad
      [] OTHER ->
          IF a.m = 0 \/ b.m = 0 THEN SignedZero(SignOf(a) * SignOf(b))
          ELSE IF a.e + b.e > MaxExp \/ Abs(a.m) > MantLimit \div Abs(b.m) THEN Bad
          ELSE Fin(a.m * b.m, a.e + b.e)

RECURSIVE IntPow(_, _)
IntPow(a, n) == IF n = 0 THEN One ELSE FMul(a, IntPow(a, n - 1))

\* j with i = 2^j, or -1 when i is not a power of two
RECURSIVE Log2(_)
Log2(i) ==
    IF i = 1 THEN 0
    ELSE IF i < 1 \/ i % 2 # 0 THEN 0 - 1
    ELSE LET j == Log2(i \div 2) IN IF j < 0 THEN j ELSE j + 1

\* a.powf(b) for a finite dyadic a and a negative integer exponent -n
NegPow(a, n) ==
    LET s == IF a.m < 0 /\ n % 2 = 1 THEN 0 - 1 ELSE 1
        j == Log2(Abs(a.m))
    IN  IF a.m = 0 THEN Inf(IF n % 2 = 1 THEN SignOf(a) ELSE 1)
        ELSE IF j < 0 \/ (j > 0 /\ a.e > 0) THEN Bad
        ELSE IF j = 0 THEN (IF a.e * n > MantBits THEN Bad ELSE Fin(s * Pow2(a.e * n), 0))
        ELSE IF j * n > MaxExp THEN Bad ELSE Fin(s, j * n)

\* a.powf(b)
FPow(a, b) ==
    CASE IsZero(b) -> One
      [] IsOne(a) -> One
      [] a.k = "bad" \/ b.k = "bad" -> Bad
      [] a.k = "nan" \/ b.k = "nan" -> NaN
      [] IsOne(b) -> a
      [] ~IsFin(a) \/ ~IsFin(b) -> Bad
      [] b.e > 0 \/ Abs(b.m) > 8 -> Bad
      [] b.m > 0 -> IntPow(a, b.m)
      [] OTHER -> NegPow(a, 0 - b.m)

\* a.sin()
FSin(a) ==
    CASE a.k = "bad" \/ a.k = "irr" -> Bad
      [] a.k = "nan" \/ a.k = "inf" -> NaN
      [] a.m = 0 -> a
      [] TrigDomain(a) -> Irr("sin", a.m, a.e)
      [] OTHER -> Bad

\* a.cos()
FCos(a) ==
    CASE a.k = "bad" \/ a.k = "irr" -> Bad
      [] a.k = "nan" \/ a.k = "inf" -> NaN
      [] a.m = 0 -> One
      [] TrigDomain(a) /\ (~Above2(a, 8) \/ Above2(a, 7) \/ a = Fin(1, 7)) -> Irr("cos", a.m, a.e)
      [] OTHER -> Bad

\* a.ln()
FLn(a) ==
    CASE a.k = "bad" -> Bad
      [] a.k = "nan" -> NaN
      [] a.k = "inf" -> IF a.m > 0 THEN a ELSE NaN
      [] a.k = "irr" -> IF a.fn = "e" THEN One ELSE Bad
      [] a.m = 0 -> Inf(0 - 1)
      [] a.m < 0 -> NaN
      [] IsOne(a) -> Zero
      [] Between(a, 5, 2, 3, 1) -> Bad
      [] OTHER -> Irr("ln", a.m, a.e)

\* sign of a value returned by FLn
LnSign(p) == SignOf(p)

\* p / q for two values returned by FLn
FDiv(p, q) ==
    CASE p.k = "bad" \/ q.k = "bad" -> Bad
      [] p.k = "nan" \/ q.k = "nan" -> NaN
      [] IsOne(q) -> p
      [] IsZero(q) -> IF IsZero(p) THEN NaN ELSE Inf(LnSign(p) * LnSign(q))
      [] q.k = "inf" ->
          IF p.k = "inf" THEN NaN ELSE SignedZero(LnSign(p) * LnSign(q))
      [] p.k = "inf" -> Inf(LnSign(p) * LnSign(q))
      [] IsZero(p) -> SignedZero(LnSign(p) * LnSign(q))
      [] p = q -> One
      [] OTHER -> Bad

\* value.log(base) = value.ln() / base.ln()
FLog(value, base) == FDiv(FLn(value), FLn(base))


(***************************************************************************)
(* Expression trees                                                        *)
(***************************************************************************)

\* const DISABLE_SIMPLIFICATION: bool = false
DISABLE_SIMPLIFICATION == FALSE

\* Node { op: Operation::Const(v), args: vec![] }
ConstNode(v) == [value |-> v, op |-> "Const", name |-> "", args |-> <<>>]

\* Node { op: Operation::Var(n), args: vec![] }
VarNode(n) == [value |-> Zero, op |-> "Var", name |-> n, args |-> <<>>]

\* Node { op, args } for an operator without payload
OpNode(op, args) == [value |-> Zero, op |-> op, name |-> "", args |-> args]

\* the number of operands the operator takes
Arity(op) ==
    CASE op \in {"Add", "Mul", "Pow", "Log"} -> 2
      [] op \in {"Sin", "Cos"} -> 1
      [] OTHER -> 0

\* some constant of the tree lies outside the modelled f64 fragment
RECURSIVE HasBad(_)
HasBad(n) ==
    \/ n.op = "Const" /\ n.value.k = "bad"
    \/ \E i \in 1..Len(n.args) : HasBad(n.args[i])

\* the tree a rewrite returns when an operand lies outside the modelled
\* fragment: which rewrite the code takes is then not known, and neither is
\* the tree it returns
Unknown == ConstNode(Bad)

\* fn eq(a: &Operation, b: f64) -> bool
eq(n, b) == n.op = "Const" /\ Near(n.value, b)

IsConst(n) == n.op = "Const"

\* Vec::remove(i), 0-based: the removed element
remove(args, i) == args[i + 1]

\* mutant: a + 0 drops the zero operand and keeps the Add node
simplify_add_keeps_node(n) ==
    LET args == n.args
    IN  IF eq(args[1], 0) THEN [n EXCEPT !.args = <<args[2]>>]
        ELSE IF eq(args[2], 0) THEN [n EXCEPT !.args = <<args[1]>>]
        ELSE IF IsConst(args[1]) /\ IsConst(args[2])
             THEN ConstNode(FAdd(args[1].value, args[2].value))
        ELSE n

\* Node::simplify, Operation::Add
simplify_add(n) ==
    LET args == n.args
    IN  IF HasBad(n) THEN Unknown
        ELSE IF eq(args[1], 0) THEN remove(args, 1)
        ELSE IF eq(args[2], 0) THEN remove(args, 0)
        ELSE IF IsConst(args[1]) /\ IsConst(args[2])
             THEN ConstNode(FAdd(args[1].value, args[2].value))
        ELSE n

\* mutant: a * 1 is not rewritten
simplify_mul_left_identity_only(n) ==
    LET args == n.args
    IN  IF eq(args[1], 1) THEN remove(args, 1)
        ELSE IF eq(args[1], 0) \/ eq(args[2], 0) THEN ConstNode(Zero)
        ELSE IF IsConst(args[1]) /\ IsConst(args[2])
             THEN ConstNode(FMul(args[1].value, args[2].value))
        ELSE n

\* Node::simplify, Operation::Mul
simplify_mul(n) ==
    LET args == n.args
    IN  IF HasBad(n) THEN Unknown
        ELSE IF eq(args[1], 1) THEN remove(args, 1)
        ELSE IF eq(args[2], 1) THEN remove(args, 0)
        ELSE IF eq(args[1], 0) \/ eq(args[2], 0) THEN ConstNode(Zero)
        ELSE IF IsConst(args[1]) /\ IsConst(args[2])
             THEN ConstNode(FMul(args[1].value, args[2].value))
        ELSE n

\* mutant: a ^ 0 rewritten to 0
simplify_pow_zero(n) ==
    LET args == n.args
    IN  IF eq(args[2], 1) THEN remove(args, 0)
        ELSE IF eq(args[2], 0) THEN ConstNode(Zero)
        ELSE IF IsConst(args[1]) /\ IsConst(args[2])
             THEN ConstNode(FPow(args[1].value, args[2].value))
        ELSE n

\* Node::simplify, Operation::Pow
simplify_pow(n) ==
    LET args == n.args
    IN  IF HasBad(n) THEN Unknown
        ELSE IF eq(args[2], 1) THEN remove(args, 0)
        ELSE IF eq(args[2], 0) THEN ConstNode(One)
        ELSE IF IsConst(args[1]) /\ IsConst(args[2])
             THEN ConstNode(FPow(args[1].value, args[2].value))
        ELSE n

\* Node::simplify, Operation::Sin
simplify_sin(n) ==
    IF IsConst(n.args[1]) THEN ConstNode(FSin(n.args[1].value)) ELSE n

\* Node::simplify, Operation::Cos
simplify_cos(n) ==
    IF IsConst(n.args[1]) THEN ConstNode(FCos(n.args[1].value)) ELSE n

\* mutant: base and value exchanged in the fold
simplify_log_swapped(n) ==
    IF IsConst(n.args[1]) /\ IsConst(n.args[2])
    THEN ConstNode(FLog(n.args[1].value, n.args[2].value))
    ELSE n

\* Node::simplify, Operation::Log
simplify_log(n) ==
    IF IsConst(n.args[1]) /\ IsConst(n.args[2])
    THEN ConstNode(FLog(n.args[2].value, n.args[1].value))
    ELSE n

\* Node::simplify: rewrite of the node itself, its children left as they are
simplify(n) ==
    CASE n.op = "Add" -> simplify_add(n)
      [] n.op = "Mul" -> simplify_mul(n)
      [] n.op = "Pow" -> simplify_pow(n)
      [] n.op = "Sin" -> simplify_sin(n)
      [] n.op = "Cos" -> simplify_cos(n)
      [] n.op = "Log" -> simplify_log(n)
      [] OTHER -> n

\* mutant: the node is returned as assembled
new_as_assembled(n) == n

\* Node::new
new(n) == IF DISABLE_SIMPLIFICATION THEN n ELSE simplify(n)

\* mutant: the node is rewritten before its children are
RECURSIVE simplify_tree_top_down(_)
simplify_tree_top_down(n) ==
    LET b == simplify(n)
    IN  [b EXCEPT !.args = [i \in 1..Len(b.args) |-> simplify_tree_top_down(b.args[i])]]

\* Node::simplify_tree: the returned node
RECURSIVE simplify_tree(_)
simplify_tree(n) ==
    simplify([n EXCEPT !.args = [i \in 1..Len(n.args) |-> simplify_tree(n.args[i])]])

\* Node::simplify_tree: what it leaves in *self
simplify_tree_self(n) ==
    [n EXCEPT !.args = [i \in 1..Len(n.args) |-> simplify_tree(n.args[i])]]

\* constructors
c(v) == new(ConstNode(v))
var(n) == new(VarNode(n))
pow(a, b) == new(OpNode("Pow", <<a, b>>))
log(base, value) == new(OpNode("Log", <<base, value>>))
ln(value) == log(c(E), value)
sin(value) == new(OpNode("Sin", <<value>>))
cos(value) == new(OpNode("Cos", <<value>>))
\* impl Add for Node, impl Mul for Node
add(a, b) == new(OpNode("Add", <<a, b>>))
mul(a, b) == new(OpNode("Mul", <<a, b>>))

\* mutant: every variable is taken for the target variable
d_var_any_name(name, variable) == c(One)

\* partial_derivative, Operation::Var and Operation::Const
d_var(name, variable) == IF name = variable THEN c(One) ELSE c(Zero)
d_const == c(Zero)

\* mutant: the derivative of the second operand is dropped
d_add_first_only(da, db) == da

\* partial_derivative, Operation::Add: da + db
d_add(da, db) == add(da, db)

\* mutant: (a * b)' taken for a' * b'
d_mul_of_derivatives(a, b, da, db) == mul(da, db)

\* partial_derivative, Operation::Mul: da * b + a * db
d_mul(a, b, da, db) == add(mul(da, b), mul(a, db))

\* partial_derivative, Operation::Pow:
\* pow(a, b) * (db * ln(a) + b * da * pow(a, c(-1.0)))
d_pow(a, b, da, db) ==
    mul(pow(a, b), add(mul(db, ln(a)), mul(mul(b, da), pow(a, c(Num(0 - 1))))))

\* partial_derivative, Operation::Sin: cos(a) * da
d_sin(a, da) == mul(cos(a), da)

\* partial_derivative, Operation::Cos: -1.0 * sin(a) * da
d_cos(a, da) == mul(mul(c(Num(0 - 1)), sin(a)), da)

\* mutant: the rule with the roles of a and b exchanged inside the sum,
\* (da * pow(a, c(-1.0)) * ln(b) + -1.0 * db * pow(b, c(-1.0)) * ln(a))
\*     * pow(ln(a), c(-2.0))
d_log_exchanged(a, b, da, db) ==
    mul(add(mul(mul(da, pow(a, c(Num(0 - 1)))), ln(b)),
            mul(mul(mul(c(Num(0 - 1)), db), pow(b, c(Num(0 - 1)))), ln(a))),
        pow(ln(a), c(Num(0 - 2))))

\* partial_derivative, Operation::Log:
\* (db * pow(b, c(-1.0)) * ln(a) + -1.0 * da * pow(a, c(-1.0)) * ln(b))
\*     * pow(ln(a), c(-2.0))
d_log(a, b, da, db) ==
    mul(add(mul(mul(db, pow(b, c(Num(0 - 1)))), ln(a)),
            mul(mul(mul(c(Num(0 - 1)), da), pow(a, c(Num(0 - 1)))), ln(b))),
        pow(ln(a), c(Num(0 - 2))))

\* Node::partial_derivative
RECURSIVE partial_derivative(_, _)
partial_derivative(n, variable) ==
    CASE n.op = "Var" -> d_var(n.name, variable)
      [] n.op = "Const" -> d_const
      [] n.op = "Add" ->
           d_add(partial_derivative(n.args[1], variable),
                 partial_derivative(n.args[2], variable))
      [] n.op = "Mul" ->
           d_mul(n.args[1], n.args[2],
                 partial_derivative(n.args[1], variable),
                 partial_derivative(n.args[2], variable))
      [] n.op = "Pow" ->
           d_pow(n.args[1], n.args[2],
                 partial_derivative(n.args[1], variable),
                 partial_derivative(n.args[2], variable))
      [] n.op = "Sin" -> d_sin(n.args[1], partial_derivative(n.args[1], variable))
      [] n.op = "Cos" -> d_cos(n.args[1], partial_derivative(n.args[1], variable))
      [] OTHER ->
           d_log(n.args[1], n.args[2],
                 partial_derivative(n.args[1], variable),
                 partial_derivative(n.args[2], variable))

\* mutant: the derivative is stored over the node differentiated
partial_derivative_in_place(n, variable) == partial_derivative(n, variable)

\* Node::partial_derivative: what it leaves in *self (the operands are
\* visited through &mut and cloned, and nothing is assigned)
RECURSIVE partial_derivative_self(_, _)
partial_derivative_self(n, variable) ==
    IF n.op \in {"Var", "Const"} THEN n
    ELSE [n EXCEPT !.args = [i \in 1..Len(n.args) |->
                                partial_derivative_self(n.args[i], variable)]]

\* Display of an f64 ("{}") prints the shortest decimal that reads back as
\* the same f64.  A decimal of at most 15 significant digits is that
\* shortest one, so a dyadic value whose expansion has at most
\* DisplayDigits significant digits prints as its expansion; the text of
\* any other finite value is outside the modelled fragment (Unprinted).
DisplayDigits == 15
Unprinted == "?"

\* the number of decimal digits of a natural number
RECURSIVE Digits(_)
Digits(i) == IF i < 10 THEN 1 ELSE 1 + Digits(i \div 10)

\* the zeros between the point and the first nonzero digit of r / 2^e,
\* for 0 < r < 2^e
RECURSIVE LeadingZeros(_, _)
LeadingZeros(r, e) ==
    IF r * 10 >= Pow2(e) THEN 0 ELSE 1 + LeadingZeros(r * 10, e)

\* the significant decimal digits of |m| / 2^e (m odd or e = 0)
SigDigits(v) ==
    LET i == Abs(v.m) \div Pow2(v.e)
        r == Abs(v.m) % Pow2(v.e)
    IN  IF r = 0 THEN Digits(i)
        ELSE IF i > 0 THEN Digits(i) + v.e
        ELSE v.e - LeadingZeros(r, v.e)

\* the text of the value is inside the modelled fragment
Printable(v) ==
    CASE v.k = "fin" -> SigDigits(Norm(v.m, v.e)) <= DisplayDigits
      [] v.k = "inf" \/ v.k = "nan" -> TRUE
      [] v.k = "irr" -> v.fn = "e"
      [] OTHER -> FALSE

\* the digits after the point of r / 2^e, 0 <= r < 2^e, while at most n of
\* them are left to print: none for r = 0, Unprinted past the n-th
RECURSIVE FracDigits(_, _, _)
FracDigits(r, e, n) ==
    IF r = 0 THEN ""
    ELSE IF n = 0 THEN Unprinted
    ELSE ToString((r * 10) \div Pow2(e)) \o FracDigits((r * 10) % Pow2(e), e, n - 1)

\* Display of an f64 ("{}")
Display(v) ==
    CASE v.k = "fin" ->
           LET w == Norm(v.m, v.e)
               i == Abs(w.m) \div Pow2(w.e)
               r == Abs(w.m) % Pow2(w.e)
           IN  (IF SignOf(v) < 0 THEN "-" ELSE "")
                 \o ToString(i)
                 \o (IF r = 0 THEN ""
                     ELSE "." \o FracDigits(r, w.e,
                                            IF i > 0 THEN DisplayDigits - Digits(i)
                                            ELSE DisplayDigits + LeadingZeros(r, w.e)))
      [] v.k = "inf" -> IF v.m < 0 THEN "-inf" ELSE "inf"
      [] v.k = "nan" -> "NaN"
      [] v.k = "irr" /\ v.fn = "e" -> "2.718281828459045"
      [] OTHER -> Unprinted

\* impl fmt::Debug for Node
RECURSIVE fmt(_)
fmt(n) ==
    CASE n.op = "Var" -> n.name
      [] n.op = "Const" -> Display(n.value)
      [] Len(n.args) = 0 -> n.op \o "()"
      [] Len(n.args) = 1 -> n.op \o "(" \o fmt(n.args[1]) \o ")"
      [] OTHER -> n.op \o "(" \o fmt(n.args[1]) \o ", " \o fmt(n.args[2]) \o ")"

\* the text of every Const of the tree is inside the modelled fragment
RECURSIVE Rendered(_)
Rendered(n) ==
    /\ n.op = "Const" => Printable(n.value)
    /\ \A i \in 1..Len(n.args) : Rendered(n.args[i])

\* the outcome of Node::evaluate: a number, or the panic
\* "Variable {name} not found"
Value(v) == [v |-> v, name |-> "", ok |-> TRUE]
Panic(name) == [v |-> Zero, name |-> name, ok |-> FALSE]

\* the first panic among the outcomes rs, in order
RECURSIVE FirstPanic(_)
FirstPanic(rs) == IF ~rs[1].ok THEN rs[1] ELSE FirstPanic(Tail(rs))

\* mutant: an unbound variable evaluates to 0
lookup_or_zero(variables, name) ==
    IF name \in DOMAIN variables THEN Value(variables[name]) ELSE Value(Zero)

\* Node::evaluate, Operation::Var: variables.get(name), or panic
lookup(variables, name) ==
    IF name \in DOMAIN variables THEN Value(variables[name]) ELSE Panic(name)

\* Node::evaluate
RECURSIVE evaluate(_, _)
evaluate(n, variables) ==
    LET args == [i \in 1..Len(n.args) |-> evaluate(n.args[i], variables)]
    IN  IF \E i \in 1..Len(args) : ~args[i].ok THEN FirstPanic(args)
        ELSE CASE n.op = "Var" -> lookup(variables, n.name)
               [] n.op = "Const" -> Value(n.value)
               [] n.op = "Add" -> Value(FAdd(args[1].v, args[2].v))
               [] n.op = "Mul" -> Value(FMul(args[1].v, args[2].v))
               [] n.op = "Pow" -> Value(FPow(args[1].v, args[2].v))
               [] n.op = "Sin" -> Value(FSin(args[1].v))
               [] n.op = "Cos" -> Value(FCos(args[1].v))
               [] OTHER -> Value(FLog(args[2].v, args[1].v))


(***************************************************************************)
(* The engine driven through its API                                       *)
(***************************************************************************)

\* most nodes of an expression assembled step by step
MaxNodes == 4

\* variable names and the values bound to them
VarNames == {"x", "y"}
Tiny == Fin(1, 17)
Consts == {Zero, One, Num(2), Tiny}
Vals == {Zero, One, Num(2)}
Envs == UNION {[S -> Vals] : S \in SUBSET VarNames}

\* no tree
Nil == OpNode("Nil", <<>>)
NoOutcome == [v |-> Zero, name |-> "-", ok |-> FALSE]

RECURSIVE Size(_)
Size(n) == IF Len(n.args) = 0 THEN 1
           ELSE IF Len(n.args) = 1 THEN 1 + Size(n.args[1])
           ELSE 1 + Size(n.args[1]) + Size(n.args[2])

VARIABLES
    expr,      \* the expression as written, no node of it simplified
    f,         \* the same expression assembled through the constructors
    operands,  \* the operands handed to the constructor that returned f
    call,      \* the last API call: "new", "diff", "eval", "evald", "diff2",
               \* "eval2", "simp", "simp2"
    variable,  \* partial_derivative: the variable name
    df,        \* partial_derivative: the returned tree
    env,       \* evaluate: the bindings
    res,       \* evaluate: the outcome
    self,      \* simplify_tree: the tree left in *self
    st,        \* simplify_tree: the returned tree
    st2        \* simplify_tree applied to st

vars == <<expr, f, operands, call, variable, df, env, res, self, st, st2>>

NoCall ==
    /\ variable' = ""
    /\ df' = Nil
    /\ env' = <<>>
    /\ res' = NoOutcome
    /\ self' = Nil
    /\ st' = Nil
    /\ st2' = Nil

Built(e, n, ops) ==
    /\ ~HasBad(n)
    /\ expr' = e
    /\ f' = n
    /\ operands' = ops
    /\ call' = "new"
    /\ NoCall

Init ==
    /\ expr = ConstNode(Zero)
    /\ f = c(Zero)
    /\ operands = <<>>
    /\ call = "new"
    /\ variable = ""
    /\ df = Nil
    /\ env = <<>>
    /\ res = NoOutcome
    /\ self = Nil
    /\ st = Nil
    /\ st2 = Nil

\* c(value)
Const == \E v \in Consts : Built(ConstNode(v), c(v), <<>>)

\* var(name)
Var == \E n \in VarNames : Built(VarNode(n), var(n), <<>>)

\* a leaf operand: as written, and as returned by c or var
Leaves == {<<ConstNode(v), c(v)>> : v \in Consts} \cup {<<VarNode(n), var(n)>> : n \in VarNames}

\* a two-operand constructor applied to f and a leaf, in either order
Binary(op) ==
    /\ Size(expr) + 2 <= MaxNodes
    /\ \E l \in Leaves :
         \/ Built(OpNode(op, <<expr, l[1]>>), new(OpNode(op, <<f, l[2]>>)), <<f, l[2]>>)
         \/ Built(OpNode(op, <<l[1], expr>>), new(OpNode(op, <<l[2], f>>)), <<l[2], f>>)

\* a one-operand constructor applied to f
Unary(op) ==
    /\ Size(expr) + 1 <= MaxNodes
    /\ Built(OpNode(op, <<expr>>), new(OpNode(op, <<f>>)), <<f>>)

\* a + b, a * b, pow(a, b), log(base, value), sin(value), cos(value)
Add == Binary("Add")
Mul == Binary("Mul")
Pow == Binary("Pow")
Log == Binary("Log")
Sin == Unary("Sin")
Cos == Unary("Cos")

\* ln(value)
Ln ==
    /\ Size(expr) + 2 <= MaxNodes
    /\ Built(OpNode("Log", <<ConstNode(E), expr>>), ln(f), <<c(E), f>>)

\* main: let mut f = 3.0 * x + 4.0 * y + 5.0
LinearExpr ==
    OpNode("Add", <<OpNode("Add", <<OpNode("Mul", <<ConstNode(Num(3)), VarNode("x")>>),
                                    OpNode("Mul", <<ConstNode(Num(4)), VarNode("y")>>)>>),
                    ConstNode(Num(5))>>)
MainLinear ==
    LET x == var("x")
        y == var("y")
        s == add(mul(c(Num(3)), x), mul(c(Num(4)), y))
    IN  Built(LinearExpr, add(s, c(Num(5))), <<s, c(Num(5))>>)

\* main: let mut f = 3.0 * x * y + 5.0
ProductExpr ==
    OpNode("Add", <<OpNode("Mul", <<OpNode("Mul", <<ConstNode(Num(3)), VarNode("x")>>),
                                    VarNode("y")>>),
                    ConstNode(Num(5))>>)
MainProduct ==
    LET x == var("x")
        y == var("y")
        p == mul(mul(c(Num(3)), x), y)
    IN  Built(ProductExpr, add(p, c(Num(5))), <<p, c(Num(5))>>)

\* f.partial_derivative(&variable)
PartialDerivative ==
    /\ call = "new"
    /\ \E v \in VarNames :
         LET d == partial_derivative(f, v)
         IN  /\ ~HasBad(d)
             /\ variable' = v
             /\ df' = d
             /\ f' = partial_derivative_self(f, v)
    /\ call' = "diff"
    /\ UNCHANGED <<expr, operands, env, res, self, st, st2>>

\* f.evaluate(&env)
Evaluate ==
    /\ call = "new"
    /\ \E b \in Envs :
         LET r == evaluate(f, b)
         IN  /\ r.v.k # "bad"
             /\ env' = b
             /\ res' = r
    /\ call' = "eval"
    /\ UNCHANGED <<expr, f, operands, variable, df, self, st, st2>>

\* df.evaluate(&env)
EvaluateDerivative ==
    /\ call = "diff"
    /\ \E b \in Envs :
         LET r == evaluate(df, b)
         IN  /\ r.v.k # "bad"
             /\ env' = b
             /\ res' = r
    /\ call' = "evald"
    /\ UNCHANGED <<expr, f, operands, variable, df, self, st, st2>>

\* f.partial_derivative(&variable) once more, on a tree already
\* differentiated or evaluated
PartialDerivativeAgain ==
    /\ call \in {"diff", "eval"}
    /\ \E v \in VarNames :
         LET d == partial_derivative(f, v)
         IN  /\ ~HasBad(d)
             /\ variable' = v
             /\ df' = d
             /\ f' = partial_derivative_self(f, v)
    /\ call' = "diff2"
    /\ UNCHANGED <<expr, operands, env, res, self, st, st2>>

\* f.evaluate(&env) once more, on a tree already differentiated or evaluated
EvaluateAgain ==
    /\ call \in {"diff", "eval"}
    /\ \E b \in Envs :
         LET r == evaluate(f, b)
         IN  /\ r.v.k # "bad"
             /\ env' = b
             /\ res' = r
    /\ call' = "eval2"
    /\ UNCHANGED <<expr, f, operands, variable, df, self, st, st2>>

\* expr.simplify_tree() on the tree assembled by hand
SimplifyTree ==
    /\ call = "new"
    /\ ~HasBad(simplify_tree(expr))
    /\ st' = simplify_tree(expr)
    /\ self' = simplify_tree_self(expr)
    /\ call' = "simp"
    /\ UNCHANGED <<expr, f, operands, variable, df, env, res, st2>>

\* st.simplify_tree()
SimplifyTreeAgain ==
    /\ call = "simp"
    /\ st2' = simplify_tree(st)
    /\ call' = "simp2"
    /\ UNCHANGED <<expr, f, operands, variable, df, env, res, self, st>>

Next ==
    \/ Const
    \/ Var
    \/ Add
    \/ Mul
    \/ Pow
    \/ Log
    \/ Ln
    \/ Sin
    \/ Cos
    \/ MainLinear
    \/ MainProduct
    \/ PartialDerivative
    \/ Evaluate
    \/ EvaluateDerivative
    \/ PartialDerivativeAgain
    \/ EvaluateAgain
    \/ SimplifyTree
    \/ SimplifyTreeAgain

Spec == Init /\ [][Next]_vars


(***************************************************************************)
(* Properties                                                              *)
(***************************************************************************)

Operators == {"Add", "Mul", "Pow", "Sin", "Cos", "Log", "Var", "Const"}

\* the same f64 up to the sign of zero (0.0 == -0.0 in f64)
SameF64(a, b) == a = b \/ (IsZero(a) /\ IsZero(b))

\* every node has the number of children of its operator
RECURSIVE WellFormed(_)
WellFormed(n) ==
    /\ n.op \in Operators
    /\ Len(n.args) = Arity(n.op)
    /\ \A i \in 1..Len(n.args) : WellFormed(n.args[i])

\* the names of the Var nodes of a tree
RECURSIVE VarsOf(_)
VarsOf(n) ==
    IF n.op = "Var" THEN {n.name}
    ELSE UNION {VarsOf(n.args[i]) : i \in 1..Len(n.args)}

\* C1 (arity invariant): every node of a tree returned by a constructor, by
\* partial_derivative or by simplify_tree (and of the tree simplify_tree
\* leaves behind), given arity-correct operands, has 2 children under Add,
\* Mul, Pow, Log, 1 under Sin, Cos and none under Var, Const.
ArityInvariant ==
    /\ WellFormed(expr) => WellFormed(f)
    /\ call \in {"diff", "evald"} => WellFormed(df)
    /\ call \in {"simp", "simp2"} => WellFormed(st) /\ WellFormed(self)
    /\ call = "simp2" => WellFormed(st2)

\* the whole-tree pass has replaced an Add node by its one-child operand
ArityWitness ==
    /\ call = "simp2"
    /\ expr.op = "Add" /\ expr.args[1].op = "Sin" /\ st.op = "Sin"

\* C2 (re-simplification idempotence): simplify_tree applied to the tree
\* simplify_tree returned, for a tree assembled by hand, returns a
\* structurally identical tree, with the same rendered text.
ResimplifyIdempotent ==
    call = "simp2" => st2 = st /\ (Rendered(st) => fmt(st2) = fmt(st))

\* the first pass has rewritten the tree, at the root and below it
ResimplifyWitness ==
    /\ call = "simp2"
    /\ st # expr
    /\ self # expr
    /\ Rendered(st) /\ Rendered(expr)
    /\ fmt(st) # fmt(expr)


\* the bindings x = vx, y = vy
XY(vx, vy) == [n \in VarNames |-> IF n = "x" THEN vx ELSE vy]

\* C3 (linearity): for f = 3*x + 4*y + 5 the derivative by x evaluates to 3
\* and the derivative by y to 4 under every binding, and f evaluates to 16
\* at x = 1, y = 2.
LinearityScenario ==
    expr = LinearExpr =>
      /\ call = "eval" /\ env = XY(One, Num(2)) => res = Value(Num(16))
      /\ call = "evald" => res = Value(IF variable = "x" THEN Num(3) ELSE Num(4))

\* the derivative of 3*x + 4*y + 5 by y has been evaluated at a point
LinearityWitness ==
    /\ expr = LinearExpr
    /\ call = "evald"
    /\ variable = "y"
    /\ env = XY(Num(2), Zero)
    /\ res = Value(Num(4))

\* an expression of constants, variables, + and * only
RECURSIVE AddMulOnly(_)
AddMulOnly(n) ==
    /\ n.op \in {"Add", "Mul", "Var", "Const"}
    /\ \A i \in 1..Len(n.args) : AddMulOnly(n.args[i])

\* every constant of the expression is an integer
RECURSIVE IntegerConsts(_)
IntegerConsts(n) ==
    /\ n.op = "Const" => n.value.k = "fin" /\ n.value.e = 0
    /\ \A i \in 1..Len(n.args) : IntegerConsts(n.args[i])

\* the value at b of the derivative by v of the expression as written, by
\* (a + b)' = a' + b' and (a * b)' = a' * b + a * b'
RECURSIVE ReferenceDerivative(_, _, _)
ReferenceDerivative(n, v, b) ==
    CASE n.op = "Var" -> IF n.name = v THEN One ELSE Zero
      [] n.op = "Const" -> Zero
      [] n.op = "Add" ->
           FAdd(ReferenceDerivative(n.args[1], v, b), ReferenceDerivative(n.args[2], v, b))
      [] OTHER ->
           FAdd(FMul(ReferenceDerivative(n.args[1], v, b), evaluate(n.args[2], b).v),
                FMul(evaluate(n.args[1], b).v, ReferenceDerivative(n.args[2], v, b)))

\* the derivative of an expression of +, * evaluates to the reference value
MatchesReference ==
    (/\ call = "evald"
     /\ AddMulOnly(expr)
     /\ VarsOf(expr) \subseteq DOMAIN env
     /\ ReferenceDerivative(expr, variable, env).k # "bad")
    => res.ok /\ SameF64(res.v, ReferenceDerivative(expr, variable, env))

\* f = 3*x*y + 5 at x = 1, y = 2: f is 11, df/dx is 6, df/dy is 3
ProductScenario ==
    expr = ProductExpr /\ env = XY(One, Num(2)) =>
      /\ call = "eval" => res = Value(Num(11))
      /\ call = "evald" => res = Value(IF variable = "x" THEN Num(6) ELSE Num(3))

\* C4 as stated (product rule correctness): for every expression of
\* constants, variables, + and *, the derivative evaluates to the value of
\* the reference derivative of the unsimplified expression.
ProductRuleAnyConstant == MatchesReference /\ ProductScenario

\* C4, amended: the same (as f64 values, 0.0 and -0.0 being equal), for
\* expressions whose constants are integers.
ProductRule == (IntegerConsts(expr) => MatchesReference) /\ ProductScenario

\* the derivative of 3*x*y + 5 by x has been evaluated at x = 1, y = 2
ProductRuleWitness ==
    /\ expr = ProductExpr
    /\ call = "evald"
    /\ variable = "x"
    /\ env = XY(One, Num(2))
    /\ res = Value(Num(6))

\* C5 (zero derivative): the derivative of a constructor-built expression by
\* a variable it does not contain is the childless node Const(0), which
\* evaluates to 0 under any bindings, also the empty ones; the derivative of
\* Var(v) by v is Const(1).
ZeroDerivative ==
    /\ call \in {"diff", "evald"} /\ variable \notin VarsOf(f) => df = ConstNode(Zero)
    /\ call = "evald" /\ variable \notin VarsOf(f) => res = Value(Zero)
    /\ call \in {"diff", "evald"} /\ f = VarNode(variable) => df = ConstNode(One)

\* an operator node over the other variable has been differentiated and the
\* derivative evaluated under empty bindings
ZeroDerivativeWitness ==
    /\ call = "evald"
    /\ f.op = "Pow"
    /\ VarsOf(f) = {"y"}
    /\ variable = "x"
    /\ env = <<>>
    /\ res = Value(Zero)


\* C6 as stated (identity elimination): multiplying any node n by the Const
\* node 1, on either side, returns n.
IdentityAnyNode ==
    call = "new" /\ expr.op = "Mul" =>
      /\ operands[1] = ConstNode(One) => f = operands[2]
      /\ operands[2] = ConstNode(One) => f = operands[1]

\* C6, amended: 1 * n returns n; n * 1 returns n unless n is itself a Const
\* within 1e-5 of 1, and then the Const 1 operand is returned.
IdentityElimination ==
    /\ call = "new" /\ expr.op = "Mul" =>
         /\ operands[1] = ConstNode(One) => f = operands[2]
         /\ operands[2] = ConstNode(One) /\ ~eq(operands[1], 1) => f = operands[1]
         /\ operands[2] = ConstNode(One) /\ eq(operands[1], 1) => f = operands[2]
    /\ mul(c(One), var("x")) = var("x")

\* an operator node has been multiplied by 1 on the right
IdentityWitness ==
    /\ call = "new"
    /\ expr.op = "Mul"
    /\ operands[2] = ConstNode(One)
    /\ operands[1].op = "Sin"
    /\ f = operands[1]

AllConst(ops) == Len(ops) > 0 /\ \A i \in 1..Len(ops) : IsConst(ops[i])

\* the operator applied to the values vs, as evaluate applies it
OpValue(op, vs) ==
    CASE op = "Add" -> FAdd(vs[1], vs[2])
      [] op = "Mul" -> FMul(vs[1], vs[2])
      [] op = "Pow" -> FPow(vs[1], vs[2])
      [] op = "Sin" -> FSin(vs[1])
      [] op = "Cos" -> FCos(vs[1])
      [] OTHER -> FLog(vs[2], vs[1])

\* within 1e-5 of b without being b
Approximately(n, b) == eq(n, b) /\ n.value # Num(b)

\* a rewrite of the operator takes an operand for 0 or 1 that is not 0 or 1
InexactRewrite(op, ops) ==
    CASE op = "Add" -> Approximately(ops[1], 0) \/ Approximately(ops[2], 0)
      [] op = "Mul" -> \E i \in 1..2 : Approximately(ops[i], 0) \/ Approximately(ops[i], 1)
      [] op = "Pow" -> Approximately(ops[2], 0) \/ Approximately(ops[2], 1)
      [] OTHER -> FALSE

\* C7 as stated (constant folding): a constructor applied to Const operands
\* returns the childless Const node holding the operator's result.
FoldsToResult ==
    (/\ call = "new"
     /\ AllConst(operands)
     /\ OpValue(expr.op, [i \in 1..Len(operands) |-> operands[i].value]).k # "bad")
    => /\ f.op = "Const" /\ f.args = <<>>
       /\ SameF64(f.value,
                  OpValue(expr.op, [i \in 1..Len(operands) |-> operands[i].value]))

\* C7, amended: a constructor applied to Const operands returns a childless
\* Const node; it holds the operator's result (a zero possibly with the
\* other sign) unless an operand of +, * or the exponent of pow is within
\* 1e-5 of 0 (for *, pow: or of 1) without being it, or 0 is multiplied by
\* an infinite or NaN constant.
ConstantFolding ==
    /\ call = "new" /\ AllConst(operands) =>
         /\ f.op = "Const" /\ f.args = <<>>
         /\ (/\ ~InexactRewrite(expr.op, operands)
             /\ expr.op = "Mul" /\ (eq(operands[1], 0) \/ eq(operands[2], 0))
                  => Finite(operands[1].value) /\ Finite(operands[2].value))
            => SameF64(f.value,
                       OpValue(expr.op, [i \in 1..Len(operands) |-> operands[i].value]))
    /\ fmt(add(c(Num(2)), c(Num(3)))) = "5"

\* pow(2, 2) has been folded to the node rendered 4
FoldWitness ==
    /\ call = "new"
    /\ expr.op = "Pow"
    /\ operands = <<ConstNode(Num(2)), ConstNode(Num(2))>>
    /\ f = ConstNode(Num(4))
    /\ fmt(f) = "4"

\* the tree the last evaluate call was made on
Evaluated == IF call = "eval" THEN f ELSE df

\* C8 (unbound variable): evaluate returns a number when every variable of
\* the tree is bound, and otherwise panics with the name of a variable of the
\* tree that is not bound; a variable that simplification has removed from
\* the tree does not have to be bound.
UnboundVariable ==
    call \in {"eval", "evald"} =>
      /\ VarsOf(Evaluated) \subseteq DOMAIN env => res.ok
      /\ ~(VarsOf(Evaluated) \subseteq DOMAIN env) =>
           ~res.ok /\ res.name \in VarsOf(Evaluated) \ DOMAIN env

\* evaluate has panicked on y with x bound
UnboundWitness ==
    /\ call = "eval"
    /\ VarsOf(f) = {"x", "y"}
    /\ DOMAIN env = {"x"}
    /\ ~res.ok
    /\ res.name = "y"

\* C9 as stated (log rule): the derivative of Log(a, b) is
\* (a'/a * ln(b) + -1 * b'/b * ln(a)) * ln(a)^-2 built through the
\* constructors.
LogRuleAsStated ==
    call = "diff" /\ f.op = "Log" =>
      df = d_log_exchanged(f.args[1], f.args[2],
                           partial_derivative(f.args[1], variable),
                           partial_derivative(f.args[2], variable))

\* C9, amended: the derivative of Log(a, b) is
\* (b'/b * ln(a) + -1 * a'/a * ln(b)) * ln(a)^-2 built through the
\* constructors: the term of b' is positive and the term of a' carries the
\* constant -1; so the derivative of ln(x) by x is x^-1, 1/2 at x = 2.
LogRule ==
    /\ call = "diff" /\ f.op = "Log" =>
         LET a == f.args[1]
             b == f.args[2]
             da == partial_derivative(a, variable)
             db == partial_derivative(b, variable)
             bterm == mul(mul(db, pow(b, c(Num(0 - 1)))), ln(a))
             aterm == mul(mul(mul(c(Num(0 - 1)), da), pow(a, c(Num(0 - 1)))), ln(b))
         IN  df = mul(add(bterm, aterm), pow(ln(a), c(Num(0 - 2))))
    /\ call \in {"diff", "evald"} /\ f = ln(var("x")) /\ variable = "x" =>
         df = pow(var("x"), c(Num(0 - 1)))
    /\ call = "evald" /\ f = ln(var("x")) /\ variable = "x" /\ env = XY(Num(2), One) =>
         res = Value(Fin(1, 1))

\* log base x of y has been differentiated by x
LogRuleWitness ==
    /\ call = "diff"
    /\ f = OpNode("Log", <<VarNode("x"), VarNode("y")>>)
    /\ variable = "x"
    /\ df.op = "Mul"

\* the operator of the last constructor call applied to the values of its
\* operands under the bindings
Direct ==
    OpValue(expr.op, [i \in 1..Len(operands) |-> evaluate(operands[i], env).v])

OperandsBound ==
    \A i \in 1..Len(operands) : VarsOf(operands[i]) \subseteq DOMAIN env

\* C10 as stated (simplification preserves value): the node a constructor
\* returns evaluates to the operator applied to the values of the operands.
ValuePreservedAlways ==
    (/\ call = "eval"
     /\ Len(operands) > 0
     /\ OperandsBound
     /\ Direct.k # "bad")
    => res.ok /\ SameF64(res.v, Direct)

\* C10, amended: the same (as f64 values, 0.0 and -0.0 being equal), unless
\* a rewrite takes a Const operand within 1e-5 of 0 or 1 for 0 or 1, or
\* a * 0, 0 * b drops an operand whose value is infinite or NaN.
ValuePreserved ==
    (/\ call = "eval"
     /\ Len(operands) > 0
     /\ OperandsBound
     /\ Direct.k # "bad"
     /\ ~InexactRewrite(expr.op, operands)
     /\ expr.op = "Mul" /\ (eq(operands[1], 0) \/ eq(operands[2], 0))
          => \A i \in 1..2 : Finite(evaluate(operands[i], env).v))
    => res.ok /\ SameF64(res.v, Direct)

\* a product of an operator node with 0 has been evaluated
ValuePreservedWitness ==
    /\ call = "eval"
    /\ expr.op = "Mul"
    /\ operands[1].op = "Sin"
    /\ operands[2] = ConstNode(Zero)
    /\ env = XY(One, Num(2))
    /\ res = Value(Zero)


\* a node one of the rewrites of simplify applies to: an Add with a Const-0
\* child, a Mul with a Const-0 or Const-1 child, a Pow with a Const-0 or
\* Const-1 exponent, or an operator whose children are all Const
Reducible(n) ==
    LET zero(a) == a.op = "Const" /\ IsZero(a.value)
        one(a) == a.op = "Const" /\ IsOne(a.value)
    IN  \/ n.op = "Add" /\ (zero(n.args[1]) \/ zero(n.args[2]))
        \/ n.op = "Mul" /\ \E i \in 1..2 : zero(n.args[i]) \/ one(n.args[i])
        \/ n.op = "Pow" /\ (zero(n.args[2]) \/ one(n.args[2]))
        \/ Len(n.args) > 0 /\ \A i \in 1..Len(n.args) : n.args[i].op = "Const"

\* no node of the tree is one a rewrite applies to
RECURSIVE Irreducible(_)
Irreducible(n) ==
    /\ ~Reducible(n)
    /\ \A i \in 1..Len(n.args) : Irreducible(n.args[i])

\* simplify_tree returns the tree as it is, and no node of it is reducible
FullySimplified(n) == simplify_tree(n) = n /\ Irreducible(n)

\* C11 (normal form of built trees): the tree a constructor or a + / *
\* overload returns for constructor-built operands, and the tree
\* partial_derivative returns for a constructor-built tree, is fully
\* simplified: simplify_tree returns a structurally identical tree, and no
\* node is an Add with a Const-0 child, a Mul with a Const-0 or Const-1
\* child, a Pow with a Const-0 or Const-1 exponent, or an operator over
\* Const children only.
NormalForm ==
    /\ FullySimplified(f)
    /\ call \in {"diff", "evald"} => FullySimplified(df)

\* the constructors have rewritten the expression as written into an
\* operator node, and its derivative is an operator node too
NormalFormWitness ==
    /\ call = "diff"
    /\ ~Irreducible(expr)
    /\ f # expr
    /\ Len(f.args) > 0
    /\ Len(df.args) > 0
    /\ Size(df) > Size(f)


\* a step made by a call of partial_derivative or evaluate on f
CallOnTree == call' \in {"diff", "eval", "diff2", "eval2"}

\* C12 (no mutation by differentiation or evaluation): every call of
\* partial_derivative or evaluate, with any variable name and bindings,
\* leaves the tree it is made on structurally identical to what it was
\* before, so a call repeated with the same arguments, directly or after a
\* call of the other kind, returns the same derivative tree and the same
\* value.
NoMutation ==
    [][/\ CallOnTree => f' = f
       /\ call' = "evald" => df' = df /\ f' = f
       /\ (call = "diff" /\ call' = "diff2" /\ variable' = variable) => df' = df
       /\ (call = "eval" /\ call' = "eval2" /\ env' = env) => res' = res
       /\ (call = "diff" /\ call' = "eval2") => partial_derivative(f', variable') = df'
       /\ (call = "eval" /\ call' = "diff2") => evaluate(f', env') = res'
      ]_vars

\* an operator node over both variables has been differentiated and then
\* evaluated, to an operator node and to a value
NoMutationWitness ==
    /\ call = "eval2"
    /\ VarsOf(f) = VarNames
    /\ Len(df.args) > 0
    /\ res.ok

====
